---- MODULE Spec2Model ----
(***************************************************************************)
(* A model of dicom_to_nifti_json.py: the per-series metadata pipeline     *)
(* (extract_metadata, serialize_metadata, save_metadata_as_json) and the   *)
(* batch driver (process_dicom_series, process_series, convert_to_nifti,   *)
(* generate_filename).                                                     *)
(*                                                                         *)
(* Two specifications share the module:                                    *)
(*   SpecMeta  one series unit's metadata path, slice by slice;            *)
(*   Spec      the thread-pool batch over the discovered directories.      *)
(***************************************************************************)
EXTENDS Integers, Sequences, FiniteSets, TLC

VARIABLES
    \* ---- metadata path of one series (SpecMeta) ----
    dicom_files,      \* the series' files: what pydicom decodes from each
    filePos,          \* position of extract_metadata's for loop
    series_metadata,  \* the list extract_metadata builds
    metaPc,           \* "extract" | "extracted" | "saved" | "error"
    metaExc,          \* the exception that ended the unit, or "none"
    json_file,        \* the JSON text value written by save_metadata_as_json
    \* ---- batch (Spec) ----
    mainPc,           \* process_dicom_series' position
    nifti_folder,     \* TRUE once the output directory exists
    walkPos,          \* next directory os.walk yields
    joinPos,          \* next future the join loop waits for
    futures,          \* the futures list: directories in submission order
    dirs,             \* per directory: its .dcm files' first-slice header, if any
    pc,               \* per unit: position in process_series
    futureExc,        \* per unit: exception stored in its future
    failed,           \* per unit: the failure that hit it, or "none"
    convFailed,       \* per unit: convert_to_nifti caught a failure
    writers           \* the output directory: path -> units that wrote it

metaVars == <<dicom_files, filePos, series_metadata, metaPc, metaExc, json_file>>
batchVars == <<mainPc, nifti_folder, walkPos, joinPos, futures, dirs,
               pc, futureExc, failed, convFailed, writers>>
vars == <<metaVars, batchVars>>

----------------------------------------------------------------------------
(* Bounds of the model *)
MaxSlices == 3    \* slices per series in the multi-slice inputs
MaxDepth == 3     \* levels of nested sequences in a slice
MaxTags == 2      \* elements per dataset in the single-slice inputs
NumDirs == 2      \* directories os.walk discovers

----------------------------------------------------------------------------
(* Python values.  Every value carries its runtime type, which is what     *)
(* serialize_metadata's isinstance chain and the JSON encoder inspect.     *)
PyInt(n) == [t |-> "int", n |-> n]
PyStr(s) == [t |-> "str", s |-> s]
PyBytes(b) == [t |-> "bytes", b |-> b]
MultiValue(m) == [t |-> "MultiValue", m |-> m]
SequenceOf(items) == [t |-> "Sequence", items |-> items]
PyOther(o) == [t |-> "other", o |-> o]      \* e.g. PersonName; o is its str()
PyList(l) == [t |-> "list", l |-> l]
PyDict(d) == [t |-> "dict", d |-> d]

EmptyDict == [x \in {} |-> x]

(* DICOM tags: a 32-bit number, group in the high half. *)
Tag(group, element) == group * 65536 + element

ImageType == Tag(8, 8)                      \* (0008,0008) CS, multi-valued
SeriesDescription == Tag(8, 4158)           \* (0008,103E) LO
ReferencedImageSequence == Tag(8, 4416)     \* (0008,1140) SQ
PrivateCreatorData == Tag(9, 4097)          \* (0009,1001) private
PatientName == Tag(16, 16)                  \* (0010,0010) PN
AcquisitionMatrix == Tag(24, 4880)          \* (0018,1310) US, multi-valued
InstanceNumber == Tag(32, 19)               \* (0020,0013) IS
ICCProfile == Tag(40, 8192)                 \* (0028,2000) OB

PublicTags == {ImageType, SeriesDescription, ReferencedImageSequence, PatientName,
               AcquisitionMatrix, InstanceNumber, ICCProfile}
AllTags == PublicTags \cup {PrivateCreatorData}

(* elem.tag.is_private: the group number is odd. *)
is_private(tag) == ((tag \div 65536) % 2) = 1

(* elem.name *)
elem_name(tag) ==
    CASE tag = ImageType -> "Image Type"
      [] tag = SeriesDescription -> "Series Description"
      [] tag = ReferencedImageSequence -> "Referenced Image Sequence"
      [] tag = PatientName -> "Patient's Name"
      [] tag = AcquisitionMatrix -> "Acquisition Matrix"
      [] tag = InstanceNumber -> "Instance Number"
      [] tag = ICCProfile -> "ICC Profile"
      [] OTHER -> "Private tag data"

(* pydicom's DicomDictionary holds the standard (even-group) elements only. *)
DicomDictionary ==
    [tag \in PublicTags |->
        CASE tag = ImageType -> "CS"
          [] tag = SeriesDescription -> "LO"
          [] tag = ReferencedImageSequence -> "SQ"
          [] tag = PatientName -> "PN"
          [] tag = AcquisitionMatrix -> "US"
          [] tag = InstanceNumber -> "IS"
          [] tag = ICCProfile -> "OB"]

KeyError == "KeyError"

(* A dictionary lookup that falls back to the unknown VR instead of raising. *)
dictionary_VR_or_UN(tag) ==
    IF tag \in DOMAIN DicomDictionary THEN DicomDictionary[tag] ELSE "UN"

(* pydicom.datadict.dictionary_VR(key): the VR, or KeyError for a tag the  *)
(* dictionary does not hold.                                               *)
dictionary_VR(tag) ==
    IF tag \in DOMAIN DicomDictionary THEN DicomDictionary[tag] ELSE KeyError

----------------------------------------------------------------------------
(* Conversions *)
HexDigits == <<"0", "1", "2", "3", "4", "5", "6", "7",
               "8", "9", "A", "B", "C", "D", "E", "F">>

RECURSIVE HexPad(_, _)
HexPad(n, width) ==
    IF n = 0 /\ width <= 0 THEN ""
    ELSE HexPad(n \div 16, width - 1) \o HexDigits[(n % 16) + 1]

(* format(key, "08X") *)
format_08X(key) == HexPad(key, 8)

DecDigits == <<"0", "1", "2", "3", "4", "5", "6", "7", "8", "9">>

RECURSIVE int_str(_)
int_str(n) ==
    IF n < 10 THEN DecDigits[n + 1]
    ELSE int_str(n \div 10) \o DecDigits[(n % 10) + 1]

(* str(v) *)
str(v) ==
    CASE v.t = "int" -> int_str(v.n)
      [] v.t = "str" -> v.s
      [] v.t = "other" -> v.o
      [] OTHER -> "<repr>"

(* The bytes of the model: two ASCII letters and 0xFF, which no UTF-8      *)
(* sequence contains.                                                      *)
AsciiChar(b) == IF b = 65 THEN "A" ELSE "B"

RECURSIVE decode_ignore(_)
(* val.decode(errors="ignore"): undecodable bytes are dropped. *)
decode_ignore(b) ==
    IF Len(b) = 0 THEN ""
    ELSE IF Head(b) < 128 THEN AsciiChar(Head(b)) \o decode_ignore(Tail(b))
    ELSE decode_ignore(Tail(b))

----------------------------------------------------------------------------
(* serialize_metadata *)
Raised == [exc |-> KeyError]

(* The dict comprehension both callers build: {el.tag: (el.name, el.value)} *)
tagged(ds, keep) == [tag \in keep |-> <<elem_name(tag), ds[tag]>>]

(* [str(v) for v in val] *)
render_multi(val) == PyList([i \in 1..Len(val.m) |-> PyStr(str(val.m[i]))])

RECURSIVE serialize_metadata(_)
serialize_metadata(metadata) ==
    LET entry(key) ==
            LET val == metadata[key][2]
                vr == dictionary_VR(key)
            IN  IF vr = KeyError THEN Raised
                ELSE IF val.t = "MultiValue"
                     THEN [vr |-> vr, Value |-> render_multi(val)]
                ELSE IF val.t = "Sequence"
                     THEN LET items == [i \in 1..Len(val.items) |->
                                  serialize_metadata(
                                      tagged(val.items[i], DOMAIN val.items[i]))]
                          IN  IF \E i \in 1..Len(items) : items[i] = Raised
                              THEN Raised
                              ELSE [vr |-> vr,
                                    Value |-> PyList([i \in 1..Len(items) |->
                                                        PyDict(items[i])])]
                ELSE IF val.t = "bytes"
                     THEN [vr |-> vr, Value |-> PyStr(decode_ignore(val.b))]
                ELSE IF val.t \in {"float", "int", "str"}
                     THEN [vr |-> vr, Value |-> val]
                ELSE [vr |-> vr, Value |-> PyStr(str(val))]
    IN  IF \E key \in DOMAIN metadata : entry(key) = Raised
        THEN Raised
        ELSE [h \in {format_08X(key) : key \in DOMAIN metadata} |->
                entry(CHOOSE key \in DOMAIN metadata : format_08X(key) = h)]

----------------------------------------------------------------------------
(* json.dump, and the json.load a reader of the document applies *)
RECURSIVE json_dump(_)
json_dump(v) ==
    CASE v.t = "int" -> [j |-> "number", n |-> v.n]
      [] v.t = "str" -> [j |-> "string", s |-> v.s]
      [] v.t = "list" -> [j |-> "array",
                          a |-> [i \in 1..Len(v.l) |-> json_dump(v.l[i])]]
      [] v.t = "dict" -> [j |-> "object",
                          o |-> [h \in DOMAIN v.d |->
                                   [vr |-> [j |-> "string", s |-> v.d[h].vr],
                                    Value |-> json_dump(v.d[h].Value)]]]

RECURSIVE json_load(_)
json_load(x) ==
    CASE x.j = "number" -> PyInt(x.n)
      [] x.j = "string" -> PyStr(x.s)
      [] x.j = "array" -> PyList([i \in 1..Len(x.a) |-> json_load(x.a[i])])
      [] x.j = "object" -> PyDict([h \in DOMAIN x.o |->
                                     [vr |-> x.o[h].vr.s,
                                      Value |-> json_load(x.o[h].Value)]])

----------------------------------------------------------------------------
(* The inputs: what pydicom.dcmread decodes from the files of one series *)
File(ds) == [valid |-> TRUE, ds |-> ds]
Corrupt == [valid |-> FALSE]       \* dcmread raises InvalidDicomError

Extend(f, tag, v) == [x \in DOMAIN f \cup {tag} |-> IF x = tag THEN v ELSE f[x]]

(* The datasets a sequence item may be, with d further levels of nesting. *)
RECURSIVE Items(_)
Items(d) ==
    {Extend(EmptyDict, InstanceNumber, PyInt(1)),
     Extend(EmptyDict, PrivateCreatorData, PyStr("V"))}
    \cup (IF d = 0 THEN {}
          ELSE {Extend(EmptyDict, ReferencedImageSequence, SequenceOf(<<it>>)) :
                    it \in Items(d - 1)})

Pool(tag) ==
    CASE tag = ImageType -> {MultiValue(<<PyStr("A"), PyStr("B")>>)}
      [] tag = SeriesDescription -> {PyStr("A")}
      [] tag = ReferencedImageSequence ->
             {SequenceOf(<<it>>) : it \in Items(MaxDepth - 1)}
      [] tag = PrivateCreatorData -> {PyStr("V")}
      [] tag = PatientName -> {PyOther("DOE^JOHN")}
      [] tag = AcquisitionMatrix -> {MultiValue(<<PyInt(0), PyInt(12)>>)}
      [] tag = InstanceNumber -> {PyInt(1), PyInt(2)}
      [] tag = ICCProfile -> {PyBytes(<<65, 255, 66>>)}

RECURSIVE DatasetsOver(_)
DatasetsOver(S) ==
    IF S = {} THEN {EmptyDict}
    ELSE LET tag == CHOOSE x \in S : TRUE
         IN  {Extend(f, tag, v) : f \in DatasetsOver(S \ {tag}), v \in Pool(tag)}

(* Single-slice inputs: every payload kind, nesting to MaxDepth. *)
RichFiles ==
    {File(ds) : ds \in UNION {DatasetsOver(S) :
                               S \in {T \in SUBSET AllTags : Cardinality(T) <= MaxTags}}}

(* Multi-slice inputs: scalar elements that may differ or be missing per slice. *)
NarrowTags == {SeriesDescription, InstanceNumber, PrivateCreatorData}
NarrowFiles ==
    {File(ds) : ds \in UNION {DatasetsOver(S) : S \in SUBSET NarrowTags}} \cup {Corrupt}

SeriesInputs ==
    {<<f>> : f \in RichFiles}
    \cup UNION {[1..n -> NarrowFiles] : n \in 1..MaxSlices}

----------------------------------------------------------------------------
(* One series unit's metadata path: extract_metadata's loop, then          *)
(* save_metadata_as_json, as process_series runs them.                     *)
NoFile == [j |-> "absent"]

(* The filter with its condition inverted. *)
private_tags_only(ds) == {tag \in DOMAIN ds : is_private(tag)}

(* if not elem.tag.is_private *)
public_tags(ds) == {tag \in DOMAIN ds : ~is_private(tag)}

(* An insert at the front of the list instead of an append. *)
insert_first(list, slice_metadata) == <<slice_metadata>> \o list

(* series_metadata.append(slice_metadata) *)
append_slice(list, slice_metadata) == Append(list, slice_metadata)

(* json.dump(series_metadata, json_file): the document is the list itself. *)
save_metadata_as_json(metadata) ==
    json_dump(PyList([i \in 1..Len(metadata) |-> PyDict(metadata[i])]))

InitMeta ==
    /\ dicom_files \in SeriesInputs
    /\ filePos = 1
    /\ series_metadata = <<>>
    /\ metaPc = "extract"
    /\ metaExc = "none"
    /\ json_file = NoFile
    \* the batch driver is not part of this specification
    /\ mainPc = "idle"
    /\ nifti_folder = FALSE
    /\ walkPos = 0
    /\ joinPos = 0
    /\ futures = <<>>
    /\ dirs = <<>>
    /\ pc = <<>>
    /\ futureExc = <<>>
    /\ failed = <<>>
    /\ convFailed = <<>>
    /\ writers = {}

(* One iteration of extract_metadata's loop: decode, filter, serialize, append. *)
ExtractSlice ==
    /\ metaPc = "extract"
    /\ filePos <= Len(dicom_files)
    /\ LET file == dicom_files[filePos]
       IN  IF ~file.valid
           THEN /\ metaPc' = "error"
                /\ metaExc' = "InvalidDicomError"
                /\ UNCHANGED <<filePos, series_metadata>>
           ELSE LET slice_metadata ==
                        serialize_metadata(tagged(file.ds, public_tags(file.ds)))
                IN  IF slice_metadata = Raised
                    THEN /\ metaPc' = "error"
                         /\ metaExc' = KeyError
                         /\ UNCHANGED <<filePos, series_metadata>>
                    ELSE /\ series_metadata' = append_slice(series_metadata, slice_metadata)
                         /\ filePos' = filePos + 1
                         /\ UNCHANGED <<metaPc, metaExc>>
    /\ UNCHANGED <<dicom_files, json_file, batchVars>>

(* return series_metadata; process_series goes on when the list is not empty. *)
ExtractReturn ==
    /\ metaPc = "extract"
    /\ filePos > Len(dicom_files)
    /\ metaPc' = IF Len(series_metadata) = 0 THEN "skipped" ELSE "extracted"
    /\ UNCHANGED <<dicom_files, filePos, series_metadata, metaExc, json_file, batchVars>>

SaveJson ==
    /\ metaPc = "extracted"
    /\ json_file' = save_metadata_as_json(series_metadata)
    /\ metaPc' = "saved"
    /\ UNCHANGED <<dicom_files, filePos, series_metadata, metaExc, batchVars>>

----------------------------------------------------------------------------
(* generate_filename.  Strings are sequences of characters here, since the *)
(* function works character by character.                                  *)
Letters == {"A", "B", "C", "D", "E", "F", "G", "H", "I", "J", "K", "L", "M",
            "N", "O", "P", "Q", "R", "S", "T", "U", "V", "W", "X", "Y", "Z"}
Digits == {"0", "1", "2", "3", "4", "5", "6", "7", "8", "9"}

(* c.isalnum() *)
isalnum(c) == c \in Letters \cup Digits

UNKNOWN_PATIENT ==
    <<"U", "N", "K", "N", "O", "W", "N", "_", "P", "A", "T", "I", "E", "N", "T">>
UNKNOWN_MODALITY ==
    <<"U", "N", "K", "N", "O", "W", "N", "_", "M", "O", "D", "A", "L", "I", "T", "Y">>
UNKNOWN_SERIES ==
    <<"U", "N", "K", "N", "O", "W", "N", "_", "S", "E", "R", "I", "E", "S">>

Missing == [present |-> FALSE]
Field(chars) == [present |-> TRUE, chars |-> chars]

(* getattr(example_file, name, default) *)
getattr(field, default) == IF field.present THEN field.chars ELSE default

(* series_uid.replace(".", "_") *)
replace_periods(chars) ==
    [i \in 1..Len(chars) |-> IF chars[i] = "." THEN "_" ELSE chars[i]]

generate_filename(example_file) ==
    LET patient_id == getattr(example_file.PatientID, UNKNOWN_PATIENT)
        modality == getattr(example_file.Modality, UNKNOWN_MODALITY)
        series_uid == getattr(example_file.SeriesInstanceUID, UNKNOWN_SERIES)
        sanitized_series_uid == replace_periods(series_uid)
        filename == patient_id \o <<"-">> \o modality \o <<"-">> \o sanitized_series_uid
    IN  [i \in 1..Len(filename) |->
            IF isalnum(filename[i]) \/ filename[i] \in {"-", "_"}
            THEN filename[i] ELSE "_"]

json_output_path(example_file) == generate_filename(example_file) \o <<".json">>
nifti_output_path(example_file) == generate_filename(example_file) \o <<".nii.gz">>

----------------------------------------------------------------------------
(* The batch: process_dicom_series and the units it submits *)
Dirs == 1..NumDirs

Headers ==
    [PatientID : {Missing, Field(<<"A", " ", "B">>)},
     Modality : {Field(<<"C", "T">>)},
     SeriesInstanceUID : {Missing, Field(<<"1", ".", "2">>)}]

NoDicom == [dicom |-> FALSE]
DirInputs == {NoDicom} \cup {[dicom |-> TRUE, first |-> h] : h \in Headers}

Failures == {"InvalidDicomError", KeyError, "OSError"}

Init ==
    /\ mainPc = "makedirs"
    /\ nifti_folder = FALSE
    /\ walkPos = 1
    /\ joinPos = 1
    /\ futures = <<>>
    /\ dirs \in [Dirs -> DirInputs]
    /\ pc = [u \in Dirs |-> "unsubmitted"]
    /\ futureExc = [u \in Dirs |-> "none"]
    /\ failed = [u \in Dirs |-> "none"]
    /\ convFailed = [u \in Dirs |-> FALSE]
    /\ writers = {}
    \* the units' metadata path is specified by SpecMeta
    /\ dicom_files = <<>>
    /\ filePos = 0
    /\ series_metadata = <<>>
    /\ metaPc = "idle"
    /\ metaExc = "none"
    /\ json_file = NoFile

Submitted == {futures[i] : i \in 1..Len(futures)}

(* A wait that returns at once, whatever the unit's state. *)
no_wait(u) == TRUE

(* A future is done once its call has returned or raised. *)
Finished(u) == pc[u] = "done"

(* os.makedirs(nifti_folder, exist_ok=True) *)
Makedirs ==
    /\ mainPc = "makedirs"
    /\ nifti_folder' = TRUE
    /\ mainPc' = "walk"
    /\ UNCHANGED <<walkPos, joinPos, futures, dirs, pc, futureExc, failed,
                   convFailed, writers, metaVars>>

(* One directory of os.walk: submit a unit when it holds .dcm files. *)
WalkDir ==
    /\ mainPc = "walk"
    /\ walkPos <= NumDirs
    /\ IF dirs[walkPos].dicom
       THEN /\ futures' = Append(futures, walkPos)
            /\ pc' = [pc EXCEPT ![walkPos] = "pending"]
       ELSE UNCHANGED <<futures, pc>>
    /\ walkPos' = walkPos + 1
    /\ UNCHANGED <<mainPc, nifti_folder, joinPos, dirs, futureExc, failed,
                   convFailed, writers, metaVars>>

WalkEnd ==
    /\ mainPc = "walk"
    /\ walkPos > NumDirs
    /\ mainPc' = "join"
    /\ UNCHANGED <<nifti_folder, walkPos, joinPos, futures, dirs, pc, futureExc,
                   failed, convFailed, writers, metaVars>>

(* future.result(): blocks until the unit is done, re-raises what it raised. *)
JoinFuture ==
    /\ mainPc = "join"
    /\ joinPos <= Len(futures)
    /\ Finished(futures[joinPos])
    /\ IF futureExc[futures[joinPos]] = "none"
       THEN joinPos' = joinPos + 1 /\ UNCHANGED mainPc
       ELSE mainPc' = "unwinding" /\ UNCHANGED joinPos
    /\ UNCHANGED <<nifti_folder, walkPos, futures, dirs, pc, futureExc, failed,
                   convFailed, writers, metaVars>>

JoinEnd ==
    /\ mainPc = "join"
    /\ joinPos > Len(futures)
    /\ mainPc' = "shutdown"
    /\ UNCHANGED <<nifti_folder, walkPos, joinPos, futures, dirs, pc, futureExc,
                   failed, convFailed, writers, metaVars>>

(* Leaving the with block: executor.shutdown(wait=True), then return or    *)
(* the pending exception goes on to the caller.                            *)
Shutdown ==
    /\ mainPc \in {"shutdown", "unwinding"}
    /\ \A u \in Submitted : Finished(u)
    /\ mainPc' = IF mainPc = "shutdown" THEN "returned" ELSE "raised"
    /\ UNCHANGED <<nifti_folder, walkPos, joinPos, futures, dirs, pc, futureExc,
                   failed, convFailed, writers, metaVars>>

(* A unit with no try block: what is raised leaves the unit. *)
propagate(exc) == exc

(* What leaves process_series when exc is raised inside its try block. *)
except_Exception(exc) == "none"

(* The conversion placed ahead of the JSON write. *)
convert_before_save(step) ==
    CASE step = "name" -> "convert"
      [] step = "convert" -> "save"
      [] step = "save" -> "done"

(* The order of process_series' steps after the metadata is extracted. *)
next_step(step) ==
    CASE step = "name" -> "save"
      [] step = "save" -> "convert"
      [] step = "convert" -> "done"

(* The except clause of process_series: log, and the unit is over. *)
Caught(u, exc) ==
    /\ pc' = [pc EXCEPT ![u] = "done"]
    /\ failed' = [failed EXCEPT ![u] = exc]
    /\ futureExc' = [futureExc EXCEPT ![u] = except_Exception(exc)]

(* A worker thread of the pool takes the unit. *)
StartUnit(u) ==
    /\ pc[u] = "pending"
    /\ pc' = [pc EXCEPT ![u] = "extract"]
    /\ UNCHANGED <<mainPc, nifti_folder, walkPos, joinPos, futures, dirs, futureExc,
                   failed, convFailed, writers, metaVars>>

(* series_metadata = extract_metadata(dicom_files).  The list has one entry *)
(* per file of a directory that holds files, so it is never empty here.    *)
UnitExtract(u) ==
    /\ pc[u] = "extract"
    /\ \E outcome \in {"ok", "InvalidDicomError", KeyError} :
          IF outcome = "ok"
          THEN /\ pc' = [pc EXCEPT ![u] = "name"]
               /\ UNCHANGED <<failed, futureExc>>
          ELSE Caught(u, outcome)
    /\ UNCHANGED <<mainPc, nifti_folder, walkPos, joinPos, futures, dirs,
                   convFailed, writers, metaVars>>

(* example_file = pydicom.dcmread(dicom_files[0]); the two output paths *)
UnitName(u) ==
    /\ pc[u] = "name"
    /\ \E outcome \in {"ok", "InvalidDicomError"} :
          IF outcome = "ok"
          THEN /\ pc' = [pc EXCEPT ![u] = next_step("name")]
               /\ UNCHANGED <<failed, futureExc>>
          ELSE Caught(u, outcome)
    /\ UNCHANGED <<mainPc, nifti_folder, walkPos, joinPos, futures, dirs,
                   convFailed, writers, metaVars>>

(* save_metadata_as_json(series_metadata, json_output_path) *)
UnitSave(u) ==
    /\ pc[u] = "save"
    /\ \E outcome \in {"ok", "OSError"} :
          IF outcome = "ok"
          THEN /\ writers' = writers \cup
                      {[path |-> json_output_path(dirs[u].first), unit |-> u]}
               /\ pc' = [pc EXCEPT ![u] = next_step("save")]
               /\ UNCHANGED <<failed, futureExc>>
          ELSE Caught(u, outcome) /\ UNCHANGED writers
    /\ UNCHANGED <<mainPc, nifti_folder, walkPos, joinPos, futures, dirs,
                   convFailed, metaVars>>

(* convert_to_nifti(dicom_dir, nifti_output_path): its own except clause   *)
(* logs a failure, and the call returns normally either way.               *)
UnitConvert(u) ==
    /\ pc[u] = "convert"
    /\ \E outcome \in {"ok", "RuntimeError"} :
          IF outcome = "ok"
          THEN /\ writers' = writers \cup
                      {[path |-> nifti_output_path(dirs[u].first), unit |-> u]}
               /\ UNCHANGED convFailed
          ELSE /\ convFailed' = [convFailed EXCEPT ![u] = TRUE]
               /\ UNCHANGED writers
    /\ pc' = [pc EXCEPT ![u] = next_step("convert")]
    /\ UNCHANGED <<mainPc, nifti_folder, walkPos, joinPos, futures, dirs,
                   futureExc, failed, metaVars>>

----------------------------------------------------------------------------
(* Specifications *)
MetaNext == ExtractSlice \/ ExtractReturn \/ SaveJson

BatchNext ==
    \/ Makedirs \/ WalkDir \/ WalkEnd \/ JoinFuture \/ JoinEnd \/ Shutdown
    \/ \E u \in Dirs :
          StartUnit(u) \/ UnitExtract(u) \/ UnitName(u) \/ UnitSave(u) \/ UnitConvert(u)

SpecMeta == InitMeta /\ [][MetaNext]_vars

Spec == Init /\ [][BatchNext]_vars

----------------------------------------------------------------------------
(* How the properties read a series document *)

(* The tag's canonical 8-hex-digit key, written out. *)
CanonicalKey(tag) ==
    CASE tag = ImageType -> "00080008"
      [] tag = SeriesDescription -> "0008103E"
      [] tag = ReferencedImageSequence -> "00081140"
      [] tag = PrivateCreatorData -> "00091001"
      [] tag = PatientName -> "00100010"
      [] tag = AcquisitionMatrix -> "00181310"
      [] tag = InstanceNumber -> "00200013"
      [] tag = ICCProfile -> "00282000"

PrivateKeys == {CanonicalKey(tag) : tag \in {x \in AllTags : is_private(x)}}

(* The `common` part of a document: the object member of that name; a flat *)
(* list has none.                                                          *)
common_of(document) ==
    IF document.j = "object" THEN document.o["common_metadata"].o ELSE EmptyDict

(* The per-slice part: `unique_metadata`, or the flat list itself. *)
unique_of(document) ==
    IF document.j = "object" THEN document.o["unique_metadata"].a ELSE document.a

Slice(i) == dicom_files[i].ds
PublicOf(ds) == {tag \in DOMAIN ds : ~is_private(tag)}

(* Every key of a rendered dictionary, those of nested items included. *)
RECURSIVE KeysDeep(_)
KeysDeep(d) ==
    DOMAIN d \cup
    UNION {IF d[h].Value.t = "list"
           THEN UNION {IF d[h].Value.l[i].t = "dict"
                       THEN KeysDeep(d[h].Value.l[i].d) ELSE {} :
                           i \in 1..Len(d[h].Value.l)}
           ELSE {} : h \in DOMAIN d}

(* The value a reader expects back for a scalar or multi-value payload. *)
Expected(val) == IF val.t = "MultiValue" THEN PyList(val.m) ELSE val

----------------------------------------------------------------------------
(* Properties of the metadata path (SpecMeta) *)

(* C1: in the emitted document of a series, a tag is in `common` if and    *)
(* only if every slice holds it with one and the same value.               *)
C1_CommonIffEqualInEverySlice ==
    (metaPc = "saved" /\ Len(dicom_files) >= 2) =>
        \A tag \in PublicTags :
            (CanonicalKey(tag) \in DOMAIN common_of(json_file))
            <=> (\A i \in 1..Len(dicom_files) :
                     /\ tag \in DOMAIN Slice(i)
                     /\ Slice(i)[tag] = Slice(1)[tag])

(* C2: for every slice i of an emitted document, `common` and unique[i]    *)
(* share no key, and together they hold exactly the keys of slice i's      *)
(* non-private tags.                                                       *)
C2_PartitionDisjointAndTotal ==
    metaPc = "saved" =>
        \A i \in 1..Len(dicom_files) :
            LET common == DOMAIN common_of(json_file)
                unique == DOMAIN unique_of(json_file)[i].o
            IN  /\ common \cap unique = {}
                /\ common \cup unique = {CanonicalKey(tag) : tag \in PublicOf(Slice(i))}

C2_Witness ==
    /\ metaPc = "saved"
    /\ Len(dicom_files) >= 2
    /\ DOMAIN Slice(1) = {SeriesDescription, InstanceNumber, PrivateCreatorData}
    /\ DOMAIN Slice(2) = {PrivateCreatorData}
    /\ DOMAIN unique_of(json_file)[1].o = {"0008103E", "00200013"}
    /\ DOMAIN unique_of(json_file)[2].o = {}

(* C6: no private tag is a key of a serialized slice document, at the top  *)
(* level or inside an item of a nested sequence at any depth.              *)
C6_NoPrivateKeyAtAnyDepth ==
    /\ \A i \in 1..Len(series_metadata) :
           KeysDeep(series_metadata[i]) \cap PrivateKeys = {}
    /\ metaPc = "saved" =>
           \A i \in 1..Len(dicom_files) :
               KeysDeep(json_load(json_file).l[i].d) \cap PrivateKeys = {}

C6_Witness ==
    /\ metaPc = "saved"
    /\ PrivateCreatorData \in DOMAIN Slice(1)
    /\ ReferencedImageSequence \in DOMAIN Slice(1)
    /\ DOMAIN Slice(1)[ReferencedImageSequence].items[1] = {ReferencedImageSequence}
    /\ DOMAIN series_metadata[1] = {"00081140"}
    /\ KeysDeep(series_metadata[1]) = {"00081140", "00200013"}

(* C7: serialize_metadata returns a rendered dictionary for every          *)
(* well-formed attribute dictionary: it never raises.                      *)
C7_SerializerNeverRaises == metaExc # KeyError

(* C8: parsing the saved document gives back, for every scalar and         *)
(* multi-value attribute, its VR and its value: numbers as numbers,        *)
(* strings as strings, multi-value elements in order.                      *)
C8_ScalarRoundTrip ==
    metaPc = "saved" =>
        \A i \in 1..Len(dicom_files) :
            \A tag \in PublicOf(Slice(i)) :
                Slice(i)[tag].t \in {"int", "str", "MultiValue"} =>
                    LET parsed == json_load(json_file).l[i].d[CanonicalKey(tag)]
                    IN  /\ parsed.vr = DicomDictionary[tag]
                        /\ parsed.Value = Expected(Slice(i)[tag])

(* C9: the per-slice part of the document has one entry per input slice,   *)
(* in input order, and entry i is the rendering of slice i alone.          *)
C9_OneEntryPerSliceInOrder ==
    /\ metaPc \in {"extract", "extracted", "saved"} =>
           Len(series_metadata) = filePos - 1
    /\ \A i \in 1..Len(series_metadata) :
           series_metadata[i] = serialize_metadata(tagged(Slice(i), PublicOf(Slice(i))))
    /\ metaPc \in {"extracted", "saved"} => Len(series_metadata) = Len(dicom_files)
    /\ metaPc = "saved" =>
           /\ Len(unique_of(json_file)) = Len(dicom_files)
           /\ \A i \in 1..Len(dicom_files) :
                  unique_of(json_file)[i] = json_dump(PyDict(series_metadata[i]))

C9_Witness ==
    /\ metaPc = "saved"
    /\ Len(dicom_files) = 3
    /\ Len(unique_of(json_file)) = 3
    /\ DOMAIN Slice(1) = {InstanceNumber}
    /\ DOMAIN Slice(2) = {InstanceNumber}
    /\ Slice(1)[InstanceNumber] = PyInt(1)
    /\ Slice(2)[InstanceNumber] = PyInt(2)
    /\ DOMAIN Slice(3) = {SeriesDescription}
    /\ unique_of(json_file)[1].o["00200013"].Value.n = 1
    /\ unique_of(json_file)[2].o["00200013"].Value.n = 2
    /\ DOMAIN unique_of(json_file)[3].o = {"0008103E"}

----------------------------------------------------------------------------
(* Properties of the batch (Spec) *)
Wrote(u, path) == [path |-> path, unit |-> u] \in writers

(* C3: a failure inside a unit stays inside it: nothing is stored in the   *)
(* unit's future, the submitting context never sees an exception, a failed *)
(* unit is simply over, and the batch can always go on until               *)
(* process_dicom_series has returned.                                      *)
C3_FailureStaysInUnit ==
    /\ \A u \in Dirs : futureExc[u] = "none"
    /\ \A u \in Dirs : failed[u] # "none" => pc[u] = "done"
    /\ mainPc \notin {"unwinding", "raised"}
    /\ mainPc # "returned" => ENABLED BatchNext

C3_Witness ==
    /\ mainPc = "returned"
    /\ \E u, v \in Dirs :
          /\ failed[u] \in Failures
          /\ dirs[v].dicom
          /\ failed[v] = "none"
          /\ Wrote(v, json_output_path(dirs[v].first))
          /\ Wrote(v, nifti_output_path(dirs[v].first))

(* C4: no two units of a batch write the same output path. *)
C4_DistinctOutputPaths ==
    \A w1, w2 \in writers : w1.path = w2.path => w1.unit = w2.unit

(* C5: process_dicom_series has returned only when every directory with    *)
(* .dcm files was submitted and every submitted unit is done, and a unit   *)
(* is dispatched only after the output directory exists.                   *)
C5_JoinBarrier ==
    /\ mainPc = "returned" =>
           \A u \in Dirs : IF dirs[u].dicom THEN pc[u] = "done" ELSE pc[u] = "unsubmitted"
    /\ \A u \in Dirs : pc[u] # "unsubmitted" => nifti_folder

C5_Witness ==
    /\ mainPc = "returned"
    /\ Len(futures) >= 2
    /\ \A u \in Submitted : pc[u] = "done"

(* C10: a unit converts only after it has written its JSON document, and   *)
(* a unit whose conversion failed ends normally, having written its JSON   *)
(* document and no .nii.gz file.                                           *)
C10_JsonBeforeConversion ==
    \A u \in Dirs :
        /\ (pc[u] = "convert" \/ convFailed[u]
              \/ (dirs[u].dicom /\ Wrote(u, nifti_output_path(dirs[u].first))))
           => Wrote(u, json_output_path(dirs[u].first))
        /\ (pc[u] = "done" /\ convFailed[u]) =>
              /\ failed[u] = "none"
              /\ futureExc[u] = "none"
              /\ ~Wrote(u, nifti_output_path(dirs[u].first))

C10_Witness ==
    \E u \in Dirs :
        /\ pc[u] = "done"
        /\ convFailed[u]
        /\ Wrote(u, json_output_path(dirs[u].first))
        /\ \A w \in writers : w.path # nifti_output_path(dirs[u].first)

====
